---- MODULE Spec2Model ----
(***************************************************************************)
(* Model of src/main.py: the three-phase pipeline client ApiEngine         *)
(* (initiate, poll status, retrieve), the scene selector get_best_scene    *)
(* and the workflow main() that chains the search, imagery and cars        *)
(* pipelines.  The remote services are the environment: every request is   *)
(* answered by a response drawn from a bounded set.                        *)
(*                                                                         *)
(* Numbers: cloudCover is scaled by 100 (0.30 is 30, the default 1 is 100),*)
(* gsd and nextTry are small naturals.  An optional value is a sequence of *)
(* length at most one: None is <<>> and a present value v is <<v>>.        *)
(***************************************************************************)
EXTENDS Integers, Sequences, FiniteSets, TLC

\* ---- bounds of the model ------------------------------------------------
MaxPolls == 2
MaxScenes == 3
MaxGsd == 2

\* ---- program constants --------------------------------------------------
HttpOk == 200
DefaultNextTry == 100
DefaultCloudCover == 100
CloudCoverThreshold == 30
AuthErrorCode == "INVALID-AUTHORIZATION-HEADER"

\* ---- python values ------------------------------------------------------
None == <<>>
Some(v) == <<v>>

\* dict.get(k, default)
Get(d, k, default) == IF k \in DOMAIN d THEN d[k] ELSE default

\* dict.get(k): None when the key is absent
GetOpt(d, k) == IF k \in DOMAIN d THEN Some(d[k]) ELSE None

\* str(x) inside an f-string, for an optional string
Str(x) == IF x = None THEN "None" ELSE x[1]

\* the outcome of a call: a returned value or a raised exception
Return(v) == [raised |-> FALSE, type |-> "", msg |-> None, value |-> v]
Raise(t, m) == [raised |-> TRUE, type |-> t, msg |-> m, value |-> None]

NoError == [type |-> "", msg |-> None]
ErrorOf(res) == [type |-> res.type, msg |-> res.msg]

\* ---- the remote side: what a request can be answered with ----------------
\* all dicts of S, and each of them with key k set to a value of V
WithOpt(S, k, V) == S \cup { d @@ (k :> v) : d \in S, v \in V }

EmptyDict == <<>>

NextTryValues == {1, 2}
PipelineIds == {"p1", "p2"}
ErrorMessages == {"boom"}
Geometries == {"g1", "g2"}
SceneIds == <<"A", "B", "C", "D">>
CloudCoverValues == {0, 30, 31, 100}

\* a response: net is FALSE when the transport failed, json is FALSE when
\* the body does not parse as JSON
Response(h, b) == [net |-> TRUE, json |-> TRUE, http |-> h, body |-> b]
TransportFailure == [net |-> FALSE, json |-> FALSE, http |-> 0, body |-> EmptyDict]
Unparsable(h) == [net |-> TRUE, json |-> FALSE, http |-> h, body |-> EmptyDict]

\* bodies of non-200 responses: the error code and the message may be missing
AuthErrorBodies == WithOpt({[error |-> AuthErrorCode]}, "errorMessage", ErrorMessages)

OtherErrorBodies ==
    { EmptyDict,
      [errorMessage |-> "boom"],
      [error |-> "RATE-LIMITED", errorMessage |-> "boom"],
      [error |-> AuthErrorCode] }

FailedResponses ==
    {TransportFailure, Unparsable(HttpOk), Unparsable(500)}
        \cup { Response(401, b) : b \in AuthErrorBodies }
        \cup { Response(500, b) : b \in OtherErrorBodies }

InitiateBodies ==
    WithOpt(WithOpt({EmptyDict}, "pipelineId", PipelineIds), "nextTry", NextTryValues)

InitiateResponses == FailedResponses \cup { Response(HttpOk, b) : b \in InitiateBodies }

FinalStatusBodies ==
    { [status |-> "RESOLVED"], [status |-> "FAILED"] }

\* neither RESOLVED nor FAILED: the status or the nextTry may be missing
InProgressBodies ==
    { EmptyDict,
      [status |-> "PROCESSING"],
      [status |-> "PROCESSING", nextTry |-> 1],
      [nextTry |-> 2] }

\* the status service answers in-progress at most MaxPolls times per invocation
StatusResponses(inProgressSoFar) ==
    FailedResponses
        \cup { Response(HttpOk, b) : b \in FinalStatusBodies }
        \cup (IF inProgressSoFar < MaxPolls
              THEN { Response(HttpOk, b) : b \in InProgressBodies }
              ELSE {})

Scene(i, cc, g) == [sceneId |-> SceneIds[i], cloudCover |-> cc, bands |-> <<[gsd |-> g]>>]
SceneNoCloudCover(i, g) == [sceneId |-> SceneIds[i], bands |-> <<[gsd |-> g]>>]

\* the scenes that can stand at position i of a search result
ScenesAt(i) ==
    { Scene(i, cc, g) : cc \in CloudCoverValues, g \in 1..MaxGsd }
        \cup { SceneNoCloudCover(i, g) : g \in 1..MaxGsd }

\* every result sequence of length n
RECURSIVE ResultsOfLen(_)
ResultsOfLen(n) ==
    IF n = 0 THEN { <<>> }
    ELSE { Append(r, s) : r \in ResultsOfLen(n - 1), s \in ScenesAt(n) }

SceneCollections ==
    { [results |-> r] : r \in UNION { ResultsOfLen(n) : n \in 0..MaxScenes } }

\* the search results the workflow is run on
SearchBodies ==
    { [results |-> <<>>],
      [results |-> <<Scene(1, 50, 1)>>],
      [results |-> <<Scene(1, 50, 2), Scene(2, 10, 1)>>],
      [results |-> <<SceneNoCloudCover(1, 1), Scene(2, 10, 2)>>] }

ReleaseBodies ==
    { [map |-> "m1"], [map |-> "m2", error |-> AuthErrorCode] }

RetrieveResponses(pipe) ==
    FailedResponses
        \cup { Response(HttpOk, b) :
                 b \in (IF pipe = "search" THEN SearchBodies ELSE ReleaseBodies) }

\* ---- ApiEngine._make_request -------------------------------------------
\* mutant: the error code is not looked at
make_request_no_auth_check(r) ==
    IF ~r.net THEN Raise("ClientError", None)
    ELSE IF ~r.json THEN Raise("ContentTypeError", None)
    ELSE IF r.http # HttpOk
         THEN Raise("Exception", GetOpt(r.body, "errorMessage"))
         ELSE Return(r.body)

\* mutant: the HTTP status is not looked at
make_request_ignores_http_status(r) ==
    IF ~r.net THEN Raise("ClientError", None)
    ELSE IF ~r.json THEN Raise("ContentTypeError", None)
    ELSE Return(r.body)

make_request(r) ==
    IF ~r.net THEN Raise("ClientError", None)
    ELSE IF ~r.json THEN Raise("ContentTypeError", None)
    ELSE IF r.http # HttpOk
         THEN IF GetOpt(r.body, "error") = Some(AuthErrorCode)
              THEN Raise("AuthenticationError", <<"Invalid token used">>)
              ELSE Raise("Exception", GetOpt(r.body, "errorMessage"))
         ELSE Return(r.body)

\* ---- ApiEngine.get_data: what it computes from the responses ------------
\* line 77: the delay and the pipeline id read from the initiate response
first_delay(initiate_response) == GetOpt(initiate_response, "nextTry")

\* mutant: the pipeline id is not the one of the initiate response
pipeline_id_of_fixed(initiate_response) == Some("p1")

pipeline_id_of(initiate_response) == GetOpt(initiate_response, "pipelineId")

\* mutant: a missing status counts as RESOLVED
status_of_missing_is_resolved(status_response) ==
    Get(status_response, "status", "RESOLVED")

\* line 82: the status read from a status response
status_of(status_response) == Get(status_response, "status", "")

\* mutant: the loop is left on every status but FAILED
poll_outcome_break_unless_failed(status) ==
    IF status = "FAILED" THEN "raise" ELSE "retrieve"

\* mutant: RESOLVED does not leave the loop
poll_outcome_never_breaks(status) ==
    IF status = "FAILED" THEN "raise" ELSE "sleep"

\* mutant: a failed pipeline is polled again
poll_outcome_failed_retries(status) ==
    IF status = "RESOLVED" THEN "retrieve" ELSE "sleep"

\* line 83-87: what the loop does on a status
poll_outcome(status) ==
    IF status = "RESOLVED" THEN "retrieve"
    ELSE IF status = "FAILED" THEN "raise"
    ELSE "sleep"

\* mutant: the delay is kept when the response carries no nextTry
next_delay_stale(status_response, current) ==
    IF "nextTry" \in DOMAIN status_response
    THEN Some(status_response["nextTry"])
    ELSE current

\* mutant: no default when the response carries no nextTry
next_delay_no_default(status_response, current) ==
    GetOpt(status_response, "nextTry")

\* line 87: the delay adopted from an in-progress status response
next_delay(status_response, current) ==
    Some(Get(status_response, "nextTry", DefaultNextTry))

\* mutant: the status response is returned
get_data_result_is_status(status_response, retrieve_response) == status_response

\* line 89-91: what get_data returns
get_data_result(status_response, retrieve_response) == retrieve_response

\* line 86: the exception raised for a failed pipeline
pipeline_failed(pid) ==
    Raise("Exception", <<"An error occurred during processing pipeline ", Str(pid)>>)

\* ---- get_best_scene ----------------------------------------------------
\* gsd of the first band
Gsd(scene) == scene.bands[1].gsd

\* mutant: a scene without cloudCover passes the cloud cover test
meets_threshold_missing_passes(scene) ==
    Get(scene, "cloudCover", 0) <= CloudCoverThreshold

\* line 35: the cloud cover test
meets_threshold(scene) ==
    Get(scene, "cloudCover", DefaultCloudCover) <= CloudCoverThreshold

\* mutant: a scene of equal gsd replaces the best scene
RECURSIVE best_scene_loop_ties_to_last(_, _, _)
best_scene_loop_ties_to_last(results, i, best) ==
    IF i > Len(results) THEN best
    ELSE LET scene == results[i] IN
         IF meets_threshold(scene)
         THEN IF best = None
              THEN best_scene_loop_ties_to_last(results, i + 1, Some(scene))
              ELSE IF Gsd(scene) <= Gsd(best[1])
                   THEN best_scene_loop_ties_to_last(results, i + 1, Some(scene))
                   ELSE best_scene_loop_ties_to_last(results, i + 1, best)
         ELSE best_scene_loop_ties_to_last(results, i + 1, best)

\* the loop of get_best_scene from position i on, best_scene being best
RECURSIVE best_scene_loop(_, _, _)
best_scene_loop(results, i, best) ==
    IF i > Len(results) THEN best
    ELSE LET scene == results[i] IN
         IF meets_threshold(scene)
         THEN IF best = None
              THEN best_scene_loop(results, i + 1, Some(scene))
              ELSE IF Gsd(scene) < Gsd(best[1])
                   THEN best_scene_loop(results, i + 1, Some(scene))
                   ELSE best_scene_loop(results, i + 1, best)
         ELSE best_scene_loop(results, i + 1, best)

\* mutant: the fallback is the scene of smallest gsd
get_best_scene_fallback_finest(scenes) ==
    LET best == best_scene_loop(scenes.results, 1, None)
        r == scenes.results
    IN
    IF best # None THEN Return(best[1])
    ELSE IF Len(r) = 0
         THEN Raise("IndexError", <<"list index out of range">>)
         ELSE Return(r[CHOOSE k \in 1..Len(r) :
                         \A j \in 1..Len(r) :
                             Gsd(r[k]) < Gsd(r[j]) \/ (Gsd(r[k]) = Gsd(r[j]) /\ k <= j)])

get_best_scene(scenes) ==
    LET best == best_scene_loop(scenes.results, 1, None) IN
    IF best # None THEN Return(best[1])
    ELSE IF Len(scenes.results) = 0
         THEN Raise("IndexError", <<"list index out of range">>)
         ELSE Return(scenes.results[1])

\* ---- payloads -----------------------------------------------------------
get_search_payload(g) ==
    [provider |-> "gbdx", dataset |-> "idaho-pansharpened",
     startDatetime |-> "90 days ago 00:00:00", extent |-> g]

\* mutant: the two arguments are taken in the wrong order
get_release_payload_swapped(g, scene_id) == [sceneId |-> g, extent |-> scene_id]

get_release_payload(g, scene_id) == [sceneId |-> scene_id, extent |-> g]

\* ---- state --------------------------------------------------------------
VARIABLES
    geojson,      \* main: the input geometry
    pc,           \* main: the statement it is at
    resp,         \* main: the search result
    best_scene,   \* main: the chosen scene
    imagery_map,  \* main: the imagery result
    cars_map,     \* main: the cars result
    output,       \* what main printed
    error,        \* the exception that ended the workflow
    phase,        \* get_data: the statement the running invocation is at
    next_try,     \* get_data: the current delay
    pipeline_id,  \* get_data: the pipeline id
    trace,        \* history: requests and sleeps of the latest invocation
    calls,        \* history: per pipeline, what its invocation did
    scenes,       \* selector harness: the collection passed to get_best_scene
    selected      \* selector harness: the outcome of get_best_scene

vars == <<geojson, pc, resp, best_scene, imagery_map, cars_map, output, error,
          phase, next_try, pipeline_id, trace, calls, scenes, selected>>

mainVars == <<geojson, pc, resp, best_scene, imagery_map, cars_map, output>>
harnessVars == <<scenes, selected>>

Pipelines == {"search", "imagery", "cars"}

NewCall == [state |-> "new", payload |-> None, pipelineId |-> None,
            sentIds |-> {}, retrieves |-> 0]

Init ==
    /\ geojson \in Geometries
    /\ pc = "search"
    /\ resp = None
    /\ best_scene = None
    /\ imagery_map = None
    /\ cars_map = None
    /\ output = None
    /\ error = NoError
    /\ phase = "initiate"
    /\ next_try = None
    /\ pipeline_id = None
    /\ trace = <<>>
    /\ calls = [p \in Pipelines |-> NewCall]
    /\ scenes = [results |-> <<>>]
    /\ selected = None

\* mutant: exceptions are swallowed and the workflow goes on
Alive_errors_swallowed == TRUE

\* mutant: exceptions raised after the scene selection are swallowed
Alive_release_errors_swallowed ==
    error = NoError \/ (pc \in {"imagery", "cars", "print"} /\ best_scene # None)

\* main has no try/except: an exception raised anywhere ends the workflow
Alive == error = NoError

Running == Alive /\ pc \in Pipelines

\* mutant: the cars pipeline is run before the imagery pipeline
next_statement_cars_first(p) ==
    CASE p = "search" -> "select"
      [] p = "select" -> "cars"
      [] p = "cars" -> "imagery"
      [] p = "imagery" -> "print"
      [] p = "print" -> "done"

\* main line 122-130: the statement that follows statement p
next_statement(p) ==
    CASE p = "search" -> "select"
      [] p = "select" -> "imagery"
      [] p = "imagery" -> "cars"
      [] p = "cars" -> "print"
      [] p = "print" -> "done"

\* the initiate payload main builds for the pipeline it is at
InitiatePayload ==
    IF pc = "search" THEN get_search_payload(geojson)
    ELSE get_release_payload(geojson, best_scene[1].sceneId)

\* in-progress answers received by the running invocation
IsInProgress(e) ==
    /\ e.op = "status"
    /\ ~make_request(e.resp).raised
    /\ poll_outcome(status_of(e.resp.body)) = "sleep"

InProgressCount == Cardinality({ i \in 1..Len(trace) : IsInProgress(trace[i]) })

\* get_data raises: the exception propagates through main
Abort(res) ==
    /\ error' = ErrorOf(res)
    /\ calls' = [calls EXCEPT ![pc].state = "raised"]
    /\ UNCHANGED <<mainVars, phase, next_try, pipeline_id>>

\* get_data line 76-77: the initiate request
Initiate ==
    /\ Running
    /\ phase = "initiate"
    /\ \E r \in InitiateResponses :
         LET res == make_request(r)
             ev == [op |-> "initiate", pipe |-> pc, sent |-> InitiatePayload, resp |-> r]
         IN /\ trace' = <<ev>>
            /\ IF res.raised
               THEN /\ error' = ErrorOf(res)
                    /\ calls' = [calls EXCEPT ![pc] =
                                   [NewCall EXCEPT !.state = "raised",
                                                   !.payload = Some(InitiatePayload)]]
                    /\ UNCHANGED <<mainVars, phase, next_try, pipeline_id>>
               ELSE /\ next_try' = first_delay(res.value)
                    /\ pipeline_id' = pipeline_id_of(res.value)
                    /\ phase' = "sleep"
                    /\ calls' = [calls EXCEPT ![pc] =
                                   [NewCall EXCEPT !.state = "running",
                                                   !.payload = Some(InitiatePayload),
                                                   !.pipelineId = pipeline_id_of(res.value)]]
                    /\ UNCHANGED <<mainVars, error>>
    /\ UNCHANGED harnessVars

\* get_data line 80: asyncio.sleep(next_try)
Sleep ==
    /\ Running
    /\ phase = "sleep"
    /\ IF next_try = None
       THEN /\ Abort(Raise("TypeError", <<"'<=' not supported between NoneType and int">>))
            /\ UNCHANGED trace
       ELSE /\ trace' = Append(trace, [op |-> "sleep", pipe |-> pc, delay |-> next_try[1]])
            /\ phase' = "status"
            /\ UNCHANGED <<mainVars, error, next_try, pipeline_id, calls>>
    /\ UNCHANGED harnessVars

\* get_data line 81-87: one status poll
GetStatus ==
    /\ Running
    /\ phase = "status"
    /\ \E r \in StatusResponses(InProgressCount) :
         LET res == make_request(r)
             ev == [op |-> "status", pipe |-> pc, sent |-> pipeline_id, resp |-> r]
             status == status_of(res.value)
             sent == [calls EXCEPT ![pc].sentIds = @ \cup {pipeline_id}]
         IN /\ trace' = Append(trace, ev)
            /\ IF res.raised
               THEN /\ error' = ErrorOf(res)
                    /\ calls' = [sent EXCEPT ![pc].state = "raised"]
                    /\ UNCHANGED <<mainVars, phase, next_try, pipeline_id>>
               ELSE IF poll_outcome(status) = "retrieve"
               THEN /\ phase' = "retrieve"
                    /\ calls' = sent
                    /\ UNCHANGED <<mainVars, error, next_try, pipeline_id>>
               ELSE IF poll_outcome(status) = "raise"
               THEN /\ error' = ErrorOf(pipeline_failed(pipeline_id))
                    /\ calls' = [sent EXCEPT ![pc].state = "raised"]
                    /\ UNCHANGED <<mainVars, phase, next_try, pipeline_id>>
               ELSE /\ next_try' = next_delay(res.value, next_try)
                    /\ phase' = "sleep"
                    /\ calls' = sent
                    /\ UNCHANGED <<mainVars, error, pipeline_id>>
    /\ UNCHANGED harnessVars

\* get_data line 89-91 and the assignment of its result in main
Retrieve ==
    /\ Running
    /\ phase = "retrieve"
    /\ \E r \in RetrieveResponses(pc) :
         LET res == make_request(r)
             ev == [op |-> "retrieve", pipe |-> pc, sent |-> pipeline_id, resp |-> r]
             result == get_data_result(trace[Len(trace)].resp.body, res.value)
             sent == [calls EXCEPT ![pc].sentIds = @ \cup {pipeline_id},
                                   ![pc].retrieves = @ + 1]
         IN /\ trace' = Append(trace, ev)
            /\ IF res.raised
               THEN /\ error' = ErrorOf(res)
                    /\ calls' = [sent EXCEPT ![pc].state = "raised"]
                    /\ UNCHANGED <<mainVars, phase, next_try, pipeline_id>>
               ELSE /\ calls' = [sent EXCEPT ![pc].state = "returned"]
                    /\ phase' = "initiate"
                    /\ next_try' = None
                    /\ pipeline_id' = None
                    /\ resp' = IF pc = "search" THEN Some(result) ELSE resp
                    /\ imagery_map' = IF pc = "imagery" THEN Some(result) ELSE imagery_map
                    /\ cars_map' = IF pc = "cars" THEN Some(result) ELSE cars_map
                    /\ pc' = next_statement(pc)
                    /\ UNCHANGED <<geojson, best_scene, output, error>>
    /\ UNCHANGED harnessVars

\* main line 124
SelectScene ==
    /\ Alive
    /\ pc = "select"
    /\ LET res == get_best_scene(resp[1]) IN
       IF res.raised
       THEN /\ error' = ErrorOf(res)
            /\ UNCHANGED <<pc, best_scene>>
       ELSE /\ best_scene' = Some(res.value)
            /\ pc' = next_statement(pc)
            /\ UNCHANGED error
    /\ UNCHANGED <<geojson, resp, imagery_map, cars_map, output, phase, next_try,
                   pipeline_id, trace, calls, harnessVars>>

\* main line 130
PrintMaps ==
    /\ Alive
    /\ pc = "print"
    /\ output' = Some(<<imagery_map[1], cars_map[1]>>)
    /\ pc' = next_statement(pc)
    /\ UNCHANGED <<geojson, resp, best_scene, imagery_map, cars_map, error, phase,
                   next_try, pipeline_id, trace, calls, harnessVars>>

Next ==
    \/ Initiate
    \/ Sleep
    \/ GetStatus
    \/ Retrieve
    \/ SelectScene
    \/ PrintMaps

Spec == Init /\ [][Next]_vars

\* ---- one get_data invocation, run to its end --------------------------------
\* The event loop resumes the coroutine after every sleep, and every request
\* is answered: a step of get_data that can be taken is eventually taken.
NextGet ==
    \/ Initiate
    \/ Sleep
    \/ GetStatus
    \/ Retrieve

SpecGet == Init /\ [][NextGet]_vars /\ WF_vars(NextGet)

\* ---- the selector on its own: get_best_scene applied to any collection ---
InitSel ==
    /\ geojson = "g1"
    /\ pc = "search"
    /\ resp = None
    /\ best_scene = None
    /\ imagery_map = None
    /\ cars_map = None
    /\ output = None
    /\ error = NoError
    /\ phase = "initiate"
    /\ next_try = None
    /\ pipeline_id = None
    /\ trace = <<>>
    /\ calls = [p \in Pipelines |-> NewCall]
    /\ scenes \in SceneCollections
    /\ selected = None

ApplySelector ==
    /\ selected = None
    /\ selected' = Some(get_best_scene(scenes))
    /\ UNCHANGED <<geojson, pc, resp, best_scene, imagery_map, cars_map, output, error,
                   phase, next_try, pipeline_id, trace, calls, scenes>>

NextSel == ApplySelector

SpecSel == InitSel /\ [][NextSel]_vars

\* ---- properties ---------------------------------------------------------
IsRequest(e) == e.op \in {"initiate", "status", "retrieve"}

\* the request of event e was answered with HTTP 200 and a JSON body
Ok200(e) == IsRequest(e) /\ e.resp.net /\ e.resp.json /\ e.resp.http = HttpOk

\* the status poll of event e was answered with status s
AnsweredStatus(e, s) ==
    e.op = "status" /\ Ok200(e) /\ Get(e.resp.body, "status", "") = s

\* the status poll of event e was answered with neither RESOLVED nor FAILED
AnsweredInProgress(e) ==
    e.op = "status" /\ Ok200(e)
        /\ Get(e.resp.body, "status", "") \notin {"RESOLVED", "FAILED"}

Count(op) == Cardinality({ i \in 1..Len(trace) : trace[i].op = op })

LastEvent == trace[Len(trace)]

LaterPipelines(p) ==
    CASE p = "search" -> {"imagery", "cars"}
      [] p = "imagery" -> {"cars"}
      [] p = "cars" -> {}

\* C1: in every get_data invocation the initiate request is the first event,
\* every status poll comes before the retrieve request, and a retrieve
\* request comes only after a status poll of the same invocation was
\* answered RESOLVED.
C1_InitiatePollsRetrieveOrder ==
    \A i \in 1..Len(trace) :
        /\ trace[i].pipe = trace[1].pipe
        /\ (trace[i].op = "initiate") <=> (i = 1)
        /\ trace[i].op = "status" =>
               \A j \in 1..Len(trace) : trace[j].op = "retrieve" => i < j
        /\ trace[i].op = "retrieve" =>
               \E j \in 1..(i - 1) : AnsweredStatus(trace[j], "RESOLVED")

C1_Witness ==
    /\ Len(trace) >= 6
    /\ LastEvent.op = "retrieve"
    /\ Count("status") >= 2

\* C2: once a status poll is answered RESOLVED after N in-progress answers,
\* the invocation has made one initiate call and N+1 status calls, makes no
\* further status call, and makes exactly one retrieve call; when that
\* retrieve succeeds get_data returns with 1, N+1 and 1 calls made.
C2_CallCounts ==
    \A i \in 1..Len(trace) :
        AnsweredStatus(trace[i], "RESOLVED") =>
            /\ Count("initiate") = 1
            /\ Count("status") =
                   Cardinality({ j \in 1..Len(trace) : AnsweredInProgress(trace[j]) }) + 1
            /\ \/ /\ i = Len(trace)
                  /\ phase = "retrieve"
                  /\ error = NoError
                  /\ Count("retrieve") = 0
               \/ /\ i + 1 = Len(trace)
                  /\ LastEvent.op = "retrieve"
                  /\ Count("retrieve") = 1
                  /\ Ok200(LastEvent) <=> calls[trace[1].pipe].state = "returned"

C2_Witness ==
    /\ trace # <<>>
    /\ calls["imagery"].state = "returned"
    /\ trace[1].pipe = "imagery"
    /\ Count("initiate") = 1
    /\ Count("status") = 3
    /\ Count("retrieve") = 1

\* the delay a response advertises to get_data
AdvertisedDelay(e) ==
    IF e.op = "initiate"
    THEN GetOpt(e.resp.body, "nextTry")
    ELSE Some(Get(e.resp.body, "nextTry", DefaultNextTry))

\* C3: every status poll directly follows a sleep, and that sleep uses the
\* delay of the response received just before it: the nextTry of the initiate
\* response for the first poll, and for a later poll the nextTry of the
\* preceding in-progress status response, or 100 when it carries none.
C3_SleepUsesLatestDelay ==
    \A i \in 1..Len(trace) :
        trace[i].op = "status" =>
            /\ i >= 3
            /\ trace[i - 1].op = "sleep"
            /\ Ok200(trace[i - 2])
            /\ trace[i - 2].op = "initiate" \/ AnsweredInProgress(trace[i - 2])
            /\ Some(trace[i - 1].delay) = AdvertisedDelay(trace[i - 2])

C3_Witness ==
    \E i \in 5..Len(trace) :
        /\ trace[i].op = "status"
        /\ AnsweredInProgress(trace[i - 2])
        /\ "nextTry" \notin DOMAIN trace[i - 2].resp.body
        /\ trace[i - 1].delay = DefaultNextTry
        /\ trace[i - 3].delay = 2

\* C4: a status poll answered FAILED is the last request of the workflow:
\* the invocation ends with the exception of line 86, whose message carries
\* the pipeline id, and no retrieve call was made for that pipeline.
C4_FailedIsTerminal ==
    \A i \in 1..Len(trace) :
        AnsweredStatus(trace[i], "FAILED") =>
            /\ i = Len(trace)
            /\ error = [type |-> "Exception",
                        msg |-> <<"An error occurred during processing pipeline ",
                                  Str(trace[i].sent)>>]
            /\ trace[i].sent = calls[trace[i].pipe].pipelineId
            /\ calls[trace[i].pipe].state = "raised"
            /\ calls[trace[i].pipe].retrieves = 0
            /\ Count("retrieve") = 0

C4_Witness ==
    /\ Len(trace) >= 5
    /\ AnsweredStatus(LastEvent, "FAILED")
    /\ error.msg = <<"An error occurred during processing pipeline ", "p1">>

\* the request of event e was rejected with the authorization error code
AuthRejected(e) ==
    /\ IsRequest(e)
    /\ e.resp.net /\ e.resp.json
    /\ e.resp.http # HttpOk
    /\ GetOpt(e.resp.body, "error") = Some(AuthErrorCode)

\* C5: a non-200 response with error code INVALID-AUTHORIZATION-HEADER, in
\* any phase of any pipeline, is the last request of the workflow: the
\* workflow ends in AuthenticationError, no later pipeline is initiated and
\* nothing is printed.
C5_AuthErrorAborts ==
    \A i \in 1..Len(trace) :
        AuthRejected(trace[i]) =>
            /\ i = Len(trace)
            /\ error = [type |-> "AuthenticationError", msg |-> <<"Invalid token used">>]
            /\ pc = trace[i].pipe
            /\ calls[pc].state = "raised"
            /\ \A p \in LaterPipelines(pc) : calls[p] = NewCall
            /\ output = None

C5_Witness ==
    /\ trace # <<>>
    /\ pc = "imagery"
    /\ LastEvent.op = "status"
    /\ Len(trace) >= 5
    /\ AuthRejected(LastEvent)
    /\ error.type = "AuthenticationError"

\* C6 (as claimed): every sleep of get_data is given a positive number as
\* its delay, the default being used when the initiate response carries no
\* nextTry.
C6_SleepDelayIsPositive ==
    (Running /\ phase = "sleep") => (next_try # None /\ next_try[1] > 0)

\* ---- the workflow ---------------------------------------------------------
Releases == {"imagery", "cars"}

Range(f) == { f[x] : x \in DOMAIN f }

\* C11: a release pipeline (imagery or cars) is initiated only when the search
\* invocation has returned its retrieve result and the selector has returned
\* a scene of it; when the search invocation or the selector fails, the
\* workflow has ended with no release request sent.
C11_ReleaseOnlyAfterSearchAndSelection ==
    /\ (\E p \in Releases : calls[p] # NewCall) =>
           /\ calls["search"].state = "returned"
           /\ resp # None
           /\ best_scene # None
           /\ best_scene[1] \in Range(resp[1].results)
           /\ error # NoError => (pc \in Releases /\ calls[pc].state = "raised")
    /\ (error # NoError /\ pc \in {"search", "select"}) =>
           /\ \A p \in Releases : calls[p] = NewCall
           /\ best_scene = None
           /\ output = None
    /\ calls["search"].state = "raised" => (error # NoError /\ pc = "search")

C11_Witness ==
    /\ error # NoError
    /\ pc = "search"
    /\ trace # <<>>
    /\ LastEvent.op = "retrieve"
    /\ calls["search"].state = "raised"
    /\ calls["imagery"] = NewCall
    /\ calls["cars"] = NewCall

\* C12: each release pipeline is initiated with the payload whose sceneId is
\* the id of the scene the selector returns for the search result and whose
\* extent is the input geometry; imagery and cars get the same payload.
C12_ReleasePayload ==
    /\ \A p \in Releases :
           calls[p].payload # None =>
               calls[p].payload[1] =
                   [sceneId |-> get_best_scene(resp[1]).value.sceneId, extent |-> geojson]
    /\ (calls["imagery"].payload # None /\ calls["cars"].payload # None) =>
           calls["imagery"].payload = calls["cars"].payload
    /\ calls["search"].payload # None =>
           calls["search"].payload[1].extent = geojson

C12_Witness ==
    /\ calls["cars"].payload = Some([sceneId |-> "B", extent |-> "g2"])
    /\ calls["imagery"].payload = Some([sceneId |-> "B", extent |-> "g2"])
    /\ resp[1].results[1].sceneId = "A"

\* C13: the workflow prints (the imagery map and the cars map) only when all
\* three invocations have returned, and then it does print; when a release
\* invocation fails, also when imagery returned and cars failed, the workflow
\* has ended in an error and prints nothing.
C13_OutputIffAllReturned ==
    /\ output # None =>
           /\ \A p \in Pipelines : calls[p].state = "returned"
           /\ error = NoError
           /\ output = Some(<<imagery_map[1], cars_map[1]>>)
    /\ (\A p \in Pipelines : calls[p].state = "returned") =>
           /\ error = NoError
           /\ pc \in {"print", "done"}
           /\ pc = "done" <=> output # None
    /\ \A p \in Releases :
           calls[p].state = "raised" =>
               /\ error # NoError
               /\ pc = p
               /\ output = None
               /\ ~ENABLED Next

C13_Witness ==
    /\ calls["imagery"].state = "returned"
    /\ imagery_map # None
    /\ calls["cars"].state = "raised"
    /\ error # NoError
    /\ output = None

\* the request of event e failed: no response, or a response other than 200
FailedRequest(e) == IsRequest(e) /\ (~e.resp.net \/ e.resp.http # HttpOk)

\* the variable of main that receives the result of pipeline p
ResultOf(p) ==
    CASE p = "search" -> resp
      [] p = "imagery" -> imagery_map
      [] p = "cars" -> cars_map

\* C14: a failed request (transport failure or non-200 response), in any of
\* the three phases, is the last thing the invocation does: the request is not
\* sent again, no request of a later phase is sent, get_data stays in the
\* phase of the failed request and returns no result, and the workflow ends.
C14_FailedRequestAborts ==
    \A i \in 1..Len(trace) :
        FailedRequest(trace[i]) =>
            /\ i = Len(trace)
            /\ error # NoError
            /\ pc = trace[i].pipe
            /\ phase = trace[i].op
            /\ calls[pc].state = "raised"
            /\ calls[pc].retrieves = Count("retrieve")
            /\ ResultOf(pc) = None
            /\ ~ENABLED Next

C14_Witness ==
    /\ Len(trace) >= 5
    /\ LastEvent.op = "status"
    /\ ~LastEvent.resp.net
    /\ error.type = "ClientError"
    /\ pc = "cars"

\* C15: every status and retrieve request carries the pipelineId of the
\* initiate response of its own invocation; the ids a pipeline client sends
\* are only its own, so an id obtained by one client is sent by another only
\* if the service issued the same id to both; an invocation retrieves at most
\* once and sends nothing after its retrieve.
C15_OwnPipelineIdOnly ==
    /\ \A i \in 1..Len(trace) :
           trace[i].op \in {"status", "retrieve"} =>
               /\ Ok200(trace[1])
               /\ trace[i].sent = GetOpt(trace[1].resp.body, "pipelineId")
               /\ trace[i].sent = calls[trace[i].pipe].pipelineId
               /\ trace[i].op = "retrieve" => i = Len(trace)
    /\ \A p \in Pipelines :
           /\ calls[p].sentIds \subseteq {calls[p].pipelineId}
           /\ calls[p].retrieves <= 1
           /\ calls[p].retrieves = 1 => calls[p].state \in {"returned", "raised"}
    /\ \A p, q \in Pipelines :
           (p # q /\ calls[p].pipelineId # calls[q].pipelineId) =>
               calls[p].pipelineId \notin calls[q].sentIds

C15_Witness ==
    /\ calls["search"].sentIds = {Some("p1")}
    /\ calls["search"].retrieves = 1
    /\ calls["imagery"].sentIds = {Some("p2")}
    /\ calls["imagery"].retrieves = 1
    /\ LastEvent.op = "retrieve"
    /\ LastEvent.sent = Some("p2")

\* every status poll of the invocation so far was answered in-progress
OnlyInProgressAnswers ==
    /\ Count("status") >= 1
    /\ \A i \in 1..Len(trace) : trace[i].op = "status" => AnsweredInProgress(trace[i])

Terminated(p) == calls[p].state \in {"returned", "raised"}

\* C16: whatever the number of polls made, an invocation whose status polls
\* were all answered in-progress has not ended: it is sleeping or about to
\* poll again; and an invocation whose requests are answered and whose status
\* is eventually answered RESOLVED or FAILED (or a request of which fails)
\* eventually ends, by returning or by raising.
C16_PollsUntilFinalAnswer ==
    /\ [](OnlyInProgressAnswers =>
             /\ error = NoError
             /\ calls["search"].state = "running"
             /\ phase = (IF LastEvent.op = "sleep" THEN "status" ELSE "sleep")
             /\ ENABLED NextGet)
    /\ (calls["search"].state = "running") ~> Terminated("search")

C16_Witness ==
    /\ Count("status") = MaxPolls + 1
    /\ Cardinality({ i \in 1..Len(trace) : AnsweredInProgress(trace[i]) }) = MaxPolls
    /\ calls["search"].state = "returned"

\* C17 (as claimed): every response is classified into one outcome: a 200
\* response returns its parsed body as it is, a non-200 response with error
\* code INVALID-AUTHORIZATION-HEADER raises AuthenticationError, and every
\* other non-200 response raises the generic request error, which carries the
\* errorMessage of the response or None when there is none.
C17_ResponseClassification ==
    (trace # <<>> /\ IsRequest(LastEvent) /\ LastEvent.resp.net) =>
        LET e == LastEvent
            r == e.resp
        IN /\ (r.http = HttpOk /\ r.json) =>
                  /\ error.type \notin {"AuthenticationError", "ClientError", "ContentTypeError"}
                  /\ error.type = "Exception" => AnsweredStatus(e, "FAILED")
                  /\ e.op = "retrieve" => ResultOf(e.pipe) = Some(r.body)
           /\ (r.http # HttpOk /\ AuthRejected(e)) =>
                  error.type = "AuthenticationError"
           /\ (r.http # HttpOk /\ ~AuthRejected(e)) =>
                  /\ error.type = "Exception"
                  /\ error.msg = (IF r.json THEN GetOpt(r.body, "errorMessage") ELSE None)

\* C18: the pipelines run one after the other: imagery is initiated only
\* after the search invocation returned, cars only after the imagery
\* invocation returned, and at most one pipeline is initiated and neither
\* retrieved nor failed.
C18_PipelinesDoNotOverlap ==
    /\ Cardinality({ p \in Pipelines : calls[p].state = "running" }) <= 1
    /\ calls["imagery"] # NewCall => calls["search"].state = "returned"
    /\ calls["cars"] # NewCall => calls["imagery"].state = "returned"
    /\ \A p \in Pipelines : calls[p].state = "running" => pc = p

C18_Witness ==
    /\ calls["search"].state = "returned"
    /\ calls["imagery"].state = "returned"
    /\ calls["cars"].state = "running"
    /\ phase = "status"

\* C19: a 200 status response whose status is missing or is neither RESOLVED
\* nor FAILED does not end the loop: no exception is raised, no retrieve is
\* sent, and the next two things get_data does are a sleep and a status poll.
C19_OtherStatusKeepsPolling ==
    \A i \in 1..Len(trace) :
        AnsweredInProgress(trace[i]) =>
            /\ i = Len(trace) =>
                   (error = NoError /\ phase = "sleep" /\ next_try # None)
            /\ i < Len(trace) => trace[i + 1].op = "sleep"
            /\ i + 1 = Len(trace) => (error = NoError /\ phase = "status")
            /\ i + 1 < Len(trace) => trace[i + 2].op = "status"

C19_Witness ==
    \E i \in 1..Len(trace) :
        /\ AnsweredInProgress(trace[i])
        /\ "status" \notin DOMAIN trace[i].resp.body
        /\ i + 2 <= Len(trace)
        /\ trace[i + 1].op = "sleep"
        /\ trace[i + 2].op = "status"

\* what C20 says of a state
ResultIsRetrieveBody ==
    /\ (trace # <<>> /\ LastEvent.op = "retrieve" /\ Ok200(LastEvent)) =>
           /\ ResultOf(LastEvent.pipe) = Some(LastEvent.resp.body)
           /\ calls[LastEvent.pipe].state = "returned"
    /\ best_scene # None => best_scene[1] \in Range(resp[1].results)

\* C20: when get_data returns, its caller receives exactly the body of the
\* retrieve response of that invocation; the scene get_best_scene returns is
\* an element of the results of the collection, and the collection stays as
\* it was.
C20_ResultIsRetrieveBody ==
    [][ResultIsRetrieveBody' /\ (resp # None => resp' = resp)]_vars

C20_Witness ==
    /\ pc = "imagery"
    /\ LastEvent.op = "retrieve"
    /\ LastEvent.pipe = "search"
    /\ resp = Some(LastEvent.resp.body)
    /\ Len(resp[1].results) = 2
    /\ best_scene = Some(resp[1].results[2])

\* ---- the selector ---------------------------------------------------------
\* the scene carries a cloudCover of at most 0.30
HasLowCloudCover(scene) ==
    "cloudCover" \in DOMAIN scene /\ scene.cloudCover <= CloudCoverThreshold

LowCloudCoverAt(r) == { k \in 1..Len(r) : HasLowCloudCover(r[k]) }

NoCloudCoverAt(r) == { k \in 1..Len(r) : "cloudCover" \notin DOMAIN r[k] }

\* among the positions C of r, the earliest one of smallest gsd
EarliestFinest(r, C) ==
    CHOOSE k \in C :
        \A j \in C : Gsd(r[k]) < Gsd(r[j]) \/ (Gsd(r[k]) = Gsd(r[j]) /\ k <= j)

Applied == selected # None
Outcome == selected[1]

\* C7: when at least one scene has cloudCover <= 0.30, get_best_scene returns
\* the scene of smallest bands[0].gsd among the scenes with cloudCover <= 0.30,
\* the earliest in input order when several share that gsd.
C7_FinestLowCloudScene ==
    (Applied /\ LowCloudCoverAt(scenes.results) # {}) =>
        /\ ~Outcome.raised
        /\ HasLowCloudCover(Outcome.value)
        /\ Outcome.value =
               scenes.results[EarliestFinest(scenes.results, LowCloudCoverAt(scenes.results))]

C7_Witness ==
    /\ Applied
    /\ Len(scenes.results) = 3
    /\ LowCloudCoverAt(scenes.results) = {1, 2, 3}
    /\ Gsd(scenes.results[1]) = 2
    /\ Gsd(scenes.results[2]) = 1
    /\ Gsd(scenes.results[3]) = 1
    /\ Outcome.value = scenes.results[2]

\* C8 (as claimed): a scene without cloudCover competes on gsd with the
\* scenes of cloudCover <= 0.30: the scene returned is the earliest of
\* smallest gsd among the scenes that have no cloudCover or a cloudCover
\* <= 0.30.
C8_MissingCloudCoverQualifies ==
    (Applied /\ NoCloudCoverAt(scenes.results) # {}) =>
        /\ ~Outcome.raised
        /\ Outcome.value =
               scenes.results[EarliestFinest(scenes.results,
                   LowCloudCoverAt(scenes.results) \cup NoCloudCoverAt(scenes.results))]

\* C8 (amended): a scene without cloudCover does not meet the threshold: it
\* does not compete on gsd with the scenes of cloudCover <= 0.30, and it is
\* returned only when no scene of the collection has cloudCover <= 0.30 and
\* it is the first scene of the collection.
C8_MissingCloudCoverDisqualifies ==
    (Applied /\ NoCloudCoverAt(scenes.results) # {}) =>
        /\ ~Outcome.raised
        /\ "cloudCover" \notin DOMAIN Outcome.value =>
               /\ Outcome.value = scenes.results[1]
               /\ LowCloudCoverAt(scenes.results) = {}
        /\ LowCloudCoverAt(scenes.results) # {} =>
               Outcome.value =
                   scenes.results[EarliestFinest(scenes.results,
                                                 LowCloudCoverAt(scenes.results))]

C8_Witness ==
    /\ Applied
    /\ Len(scenes.results) = 2
    /\ NoCloudCoverAt(scenes.results) = {1}
    /\ LowCloudCoverAt(scenes.results) = {2}
    /\ Gsd(scenes.results[1]) = 1
    /\ Gsd(scenes.results[2]) = 2
    /\ Outcome.value = scenes.results[2]

\* C9: when the collection is not empty and no scene of it has a cloudCover
\* <= 0.30, get_best_scene returns the first scene, whatever its cloud cover
\* and gsd.
C9_FallbackIsFirstScene ==
    (Applied /\ Len(scenes.results) > 0 /\ LowCloudCoverAt(scenes.results) = {}) =>
        /\ ~Outcome.raised
        /\ Outcome.value = scenes.results[1]

C9_Witness ==
    /\ Applied
    /\ Len(scenes.results) = 2
    /\ NoCloudCoverAt(scenes.results) = {}
    /\ scenes.results[1].cloudCover = 100
    /\ Gsd(scenes.results[1]) = 2
    /\ scenes.results[2].cloudCover = 31
    /\ Gsd(scenes.results[2]) = 1
    /\ Outcome.value = scenes.results[1]

\* C10 (as claimed): on a search result without scenes the workflow ends with
\* the error NoScenesAvailable, and no release request is made.
C10_NoScenesAvailable ==
    (resp # None /\ Len(resp[1].results) = 0) =>
        /\ pc = "select"
        /\ error = NoError \/ error.type = "NoScenesAvailable"
        /\ calls["imagery"] = NewCall
        /\ calls["cars"] = NewCall

====
